---- MODULE Spec2Model ----
(***************************************************************************)
(* Model of src/script.js (Kids Music Learning App): the five mini-games   *)
(* of initApp (note-match, chord-builder, scale-practice, interval-trainer *)
(* and time-signature), their click handlers, their round-start functions  *)
(* and the setTimeout callbacks they schedule.                             *)
(*                                                                         *)
(* JavaScript runs each handler to completion, so every handler and every  *)
(* timer callback is one atomic action.  Math.random() draws are \E over   *)
(* the catalog.  DOM class lists that the handlers read ('correct',        *)
(* 'wrong') are modelled per key; text content, colours, audio and the     *)
(* 'selected' / 'scale-highlight' / 'interval-root' classes are written    *)
(* but never read by the code and are left out.                            *)
(*                                                                         *)
(* Environment: a section that carries the class 'hidden' receives no      *)
(* clicks, so the controls of a mini-game are pressed only while its       *)
(* section is shown, and the menu buttons only while the menu is shown.    *)
(***************************************************************************)
EXTENDS Integers, Sequences, FiniteSets, TLC

(***************************************************************************)
(* Bounds of the model (not program constants).                            *)
(***************************************************************************)
\* pending setTimeout callbacks: a handler that would schedule one more is
\* not taken
MaxTimers == 2
\* chordRound and timeRound are not capped by the code; the handlers that
\* increment them are explored while the index is below this cap
RoundCap == 6
\* length of selectedNotes explored (the code allows all 7 keys)
MaxSelected == 4
\* running total of the time-signature measure explored, in beats
MaxMeasureBeats == 5

(***************************************************************************)
(* Catalogs and constants of initApp.                                      *)
(***************************************************************************)
NULL == [name |-> "null"]

NOTES ==
    << [name |-> "C"], [name |-> "D"], [name |-> "E"], [name |-> "F"],
       [name |-> "G"], [name |-> "A"], [name |-> "B"] >>

NOTES_length == Len(NOTES)

\* NOTES[i] with JavaScript's 0-based index
NOTES_at(i) == NOTES[i + 1]

totalRounds == 5
chordTotalRounds == 5
scaleTotalRounds == 3
intervalTotalRounds == 5
timeTotalRounds == 5

CHORDS ==
    << [name |-> "C major", notes |-> <<"C", "E", "G">>],
       [name |-> "F major", notes |-> <<"F", "A", "C">>],
       [name |-> "G major", notes |-> <<"G", "B", "D">>],
       [name |-> "A minor", notes |-> <<"A", "C", "E">>],
       [name |-> "D minor", notes |-> <<"D", "F", "A">>],
       [name |-> "E minor", notes |-> <<"E", "G", "B">>] >>

SCALES ==
    << [name |-> "C major",
        notes |-> <<"C", "D", "E", "F", "G", "A", "B", "C">>],
       [name |-> "A natural minor",
        notes |-> <<"A", "B", "C", "D", "E", "F", "G", "A">>],
       [name |-> "G pentatonic",
        notes |-> <<"G", "A", "B", "D", "E", "G">>] >>

INTERVALS ==
    << [name |-> "major second", steps |-> 1],
       [name |-> "major third", steps |-> 2],
       [name |-> "perfect fourth", steps |-> 3],
       [name |-> "perfect fifth", steps |-> 4],
       [name |-> "major sixth", steps |-> 5],
       [name |-> "octave", steps |-> 7] >>

TIME_SIGS ==
    << [name |-> "2/4", beats |-> 2],
       [name |-> "3/4", beats |-> 3],
       [name |-> "4/4", beats |-> 4] >>

\* data-value of the .note-btn buttons, in hundredths of a beat (eighth,
\* quarter and half note); the markup that sets them is not part of src/
NoteBtnValues == {50, 100, 200}

Range(s) == {s[i] : i \in DOMAIN s}

(***************************************************************************)
(* Array and string helpers of JavaScript used by the handlers.            *)
(***************************************************************************)
\* UTF-16 code unit of a one-letter note name
CharCode(s) ==
    CASE s = "A" -> 65 [] s = "B" -> 66 [] s = "C" -> 67 [] s = "D" -> 68
      [] s = "E" -> 69 [] s = "F" -> 70 [] s = "G" -> 71

\* Array.prototype.indexOf, 0-based, -1 when absent
indexOf(arr, x) ==
    IF \E i \in DOMAIN arr : arr[i] = x
    THEN (CHOOSE i \in DOMAIN arr :
              arr[i] = x /\ \A j \in DOMAIN arr : arr[j] = x => i <= j) - 1
    ELSE -1

\* Array.prototype.splice(idx, 1) with a 0-based idx
splice1(arr, idx) == SubSeq(arr, 1, idx) \o SubSeq(arr, idx + 2, Len(arr))

RECURSIVE InsertSorted(_, _)
InsertSorted(sorted, x) ==
    IF sorted = <<>> THEN <<x>>
    ELSE IF CharCode(x) < CharCode(Head(sorted)) THEN <<x>> \o sorted
    ELSE <<Head(sorted)>> \o InsertSorted(Tail(sorted), x)

\* Array.prototype.sort() without comparator on one-letter strings: ascending
\* by code unit
RECURSIVE sort(_)
sort(arr) ==
    IF arr = <<>> THEN <<>>
    ELSE InsertSorted(sort(Tail(arr)), Head(arr))

\* Array.prototype.join('') of one-letter strings: the resulting string, as
\* the sequence of its code units
join(arr) == [i \in 1..Len(arr) |-> CharCode(arr[i])]

\* NOTES.findIndex(n => n.name === name), 0-based
findIndex(name) ==
    IF \E i \in 1..NOTES_length : NOTES[i].name = name
    THEN (CHOOSE i \in 1..NOTES_length : NOTES[i].name = name) - 1
    ELSE -1

(***************************************************************************)
(* State.                                                                  *)
(***************************************************************************)
VARIABLES
    section,             \* the section without the class 'hidden'
    timers,              \* pending setTimeout callbacks, in scheduling order
    roundResolved,       \* history: a round index was incremented since the
                         \* last target was drawn
    currentRound, score, currentNote, gameKeyboard,
    chordRound, chordScore, currentChord, selectedNotes,
    scaleRound, scaleScore, currentScale, scaleIndex, scalesKeyboard,
    intervalRound, intervalScore, intervalRoot, currentIntervalObj,
    intervalsKeyboard,
    intervalDraw,        \* the do-while loop of nextIntervalRound: whether it
                         \* is running, and its locals rootIndex, intervalObj
    timeRound, timeScore, currentTimeSig, currentMeasureTotal

noteVars == <<currentRound, score, currentNote, gameKeyboard>>
chordVars == <<chordRound, chordScore, currentChord, selectedNotes>>
scaleVars ==
    <<scaleRound, scaleScore, currentScale, scaleIndex, scalesKeyboard>>
intervalVars ==
    <<intervalRound, intervalScore, intervalRoot, currentIntervalObj,
      intervalsKeyboard, intervalDraw>>
timeVars == <<timeRound, timeScore, currentTimeSig, currentMeasureTotal>>

vars ==
    <<section, timers, roundResolved, noteVars, chordVars, scaleVars,
      intervalVars, timeVars>>

\* no call of nextIntervalRound is running: let rootIndex; let intervalObj;
NoDraw == [pc |-> "idle", rootIndex |-> -1, intervalObj |-> NULL]

Init ==
    /\ section = "main-menu"
    /\ timers = <<>>
    /\ roundResolved = FALSE
    /\ currentRound = 0 /\ score = 0 /\ currentNote = NULL
    /\ gameKeyboard = <<>>
    /\ chordRound = 0 /\ chordScore = 0 /\ currentChord = NULL
    /\ selectedNotes = <<>>
    /\ scaleRound = 0 /\ scaleScore = 0 /\ currentScale = NULL
    /\ scaleIndex = 0 /\ scalesKeyboard = <<>>
    /\ intervalRound = 0 /\ intervalScore = 0 /\ intervalRoot = NULL
    /\ currentIntervalObj = NULL /\ intervalsKeyboard = <<>>
    /\ intervalDraw = NoDraw
    /\ timeRound = 0 /\ timeScore = 0 /\ currentTimeSig = NULL
    /\ currentMeasureTotal = 0

(***************************************************************************)
(* Keyboards and timers.                                                   *)
(***************************************************************************)
\* createKeyboard: one fresh key per note, no feedback class; key k carries
\* NOTES[k]
createKeyboard == [k \in 1..NOTES_length |-> {}]

\* key.classList.remove(...) on every key of a keyboard
removeClasses(kb, classes) == [k \in DOMAIN kb |-> kb[k] \ classes]

\* delay of a scheduled callback in milliseconds
Delay(fn) ==
    CASE fn = "nextRound" -> 800
      [] fn = "nextChordRound" -> 1000
      [] fn = "nextScaleRound" -> 1200
      [] fn = "scaleWrongClear" -> 800
      [] fn = "nextIntervalRound" -> 1000
      [] fn = "intervalWrongClear" -> 800
      [] fn = "nextTimeRound" -> 1200
      [] fn = "measureReset" -> 1200

CanSchedule == Len(timers) < MaxTimers

\* setTimeout(fn, Delay(fn)); key is the key element the callback closes
\* over (0: none)
setTimeout(fn, key) == Append(timers, [fn |-> fn, key |-> key])

\* a pending callback may run once no callback scheduled before it with an
\* equal or shorter delay is still pending
CanFire(i) == \A j \in 1..(i - 1) : Delay(timers[j].fn) > Delay(timers[i].fn)

removeTimer(i) == SubSeq(timers, 1, i - 1) \o SubSeq(timers, i + 1, Len(timers))

\* createKeyboard empties the container: the keys that pending callbacks of
\* kind fn close over are detached from the document (key -1)
detachKeys(ts, fn) ==
    [j \in DOMAIN ts |->
        IF ts[j].fn = fn THEN [ts[j] EXCEPT !.key = -1] ELSE ts[j]]

(***************************************************************************)
(* Session scope.  The five mini-games write disjoint variables and share  *)
(* only the shown section, so a behaviour plays one mini-game, entered and *)
(* left any number of times: a mini-game is entered only while the others  *)
(* have never been entered.                                                *)
(***************************************************************************)
NeverEntered(g) ==
    CASE g = "note" -> currentNote = NULL
      [] g = "chords" -> currentChord = NULL
      [] g = "scales" -> currentScale = NULL
      [] g = "interval" -> intervalRoot = NULL
      [] g = "time" -> currentTimeSig = NULL

Games == {"note", "chords", "scales", "interval", "time"}

OnlyGame(g) == \A h \in Games \ {g} : NeverEntered(h)

(***************************************************************************)
(* Navigation.                                                             *)
(***************************************************************************)
\* showSection(sectionToShow)
showSection(sectionToShow) == section' = sectionToShow

\* click on a .back-btn of the shown section
BackButton ==
    /\ section # "main-menu"
    /\ showSection("main-menu")
    /\ UNCHANGED <<timers, roundResolved, noteVars, chordVars, scaleVars,
                   intervalVars, timeVars>>

(***************************************************************************)
(* Note-match.                                                             *)
(***************************************************************************)
\* nextRound with > in place of >= in the test of the round limit
nextRound_offByOne(round, kb, n) ==
    IF round > totalRounds
    THEN /\ currentNote' = currentNote
         /\ gameKeyboard' = kb
         /\ roundResolved' = roundResolved
    ELSE /\ currentNote' = n
         /\ gameKeyboard' = removeClasses(kb, {"correct", "wrong"})
         /\ roundResolved' = FALSE

\* nextRound(): round is currentRound and kb the keyboard at the call, n the
\* note Math.random() picks
nextRound(round, kb, n) ==
    IF round >= totalRounds
    THEN /\ currentNote' = currentNote
         /\ gameKeyboard' = kb
         /\ roundResolved' = roundResolved
    ELSE /\ currentNote' = n
         /\ gameKeyboard' = removeClasses(kb, {"correct", "wrong"})
         /\ roundResolved' = FALSE

\* click on btn-note-game
BtnNoteGame ==
    /\ section = "main-menu"
    /\ OnlyGame("note")
    /\ showSection("note-game-section")
    /\ currentRound' = 0
    /\ score' = 0
    /\ \E n \in Range(NOTES) : nextRound(0, createKeyboard, n)
    /\ UNCHANGED <<timers, chordVars, scaleVars, intervalVars, timeVars>>

\* handleGameKeyClick without the return of the wrong-answer branch
handleGameKeyClick_noReturn(k) ==
    IF currentNote = NULL THEN UNCHANGED vars
    ELSE IF gameKeyboard[k] \cap {"correct", "wrong"} # {} THEN UNCHANGED vars
    ELSE /\ CanSchedule
         /\ IF NOTES[k].name = currentNote.name
            THEN /\ gameKeyboard' =
                       [gameKeyboard EXCEPT ![k] = @ \cup {"correct"}]
                 /\ score' = score + 1
            ELSE /\ gameKeyboard' =
                       [gameKeyboard EXCEPT ![k] = @ \cup {"wrong"}]
                 /\ score' = score
         /\ currentRound' = currentRound + 1
         /\ roundResolved' = TRUE
         /\ timers' = setTimeout("nextRound", 0)
         /\ UNCHANGED <<section, currentNote, chordVars, scaleVars,
                        intervalVars, timeVars>>

\* handleGameKeyClick without the return for a key that carries a mark
handleGameKeyClick_noGuard(k) ==
    IF currentNote = NULL THEN UNCHANGED vars
    ELSE IF NOTES[k].name = currentNote.name
    THEN /\ CanSchedule
         /\ gameKeyboard' = [gameKeyboard EXCEPT ![k] = @ \cup {"correct"}]
         /\ score' = score + 1
         /\ currentRound' = currentRound + 1
         /\ roundResolved' = TRUE
         /\ timers' = setTimeout("nextRound", 0)
         /\ UNCHANGED <<section, currentNote, chordVars, scaleVars,
                        intervalVars, timeVars>>
    ELSE /\ gameKeyboard' = [gameKeyboard EXCEPT ![k] = @ \cup {"wrong"}]
         /\ UNCHANGED <<section, timers, roundResolved, currentRound, score,
                        currentNote, chordVars, scaleVars, intervalVars,
                        timeVars>>

\* handleGameKeyClick(note, keyEl) for the key k of keyboard-game
handleGameKeyClick(k) ==
    IF currentNote = NULL THEN UNCHANGED vars
    ELSE IF gameKeyboard[k] \cap {"correct", "wrong"} # {} THEN UNCHANGED vars
    ELSE IF NOTES[k].name = currentNote.name
    THEN /\ CanSchedule
         /\ gameKeyboard' = [gameKeyboard EXCEPT ![k] = @ \cup {"correct"}]
         /\ score' = score + 1
         /\ currentRound' = currentRound + 1
         /\ roundResolved' = TRUE
         /\ timers' = setTimeout("nextRound", 0)
         /\ UNCHANGED <<section, currentNote, chordVars, scaleVars,
                        intervalVars, timeVars>>
    ELSE /\ gameKeyboard' = [gameKeyboard EXCEPT ![k] = @ \cup {"wrong"}]
         /\ UNCHANGED <<section, timers, roundResolved, currentRound, score,
                        currentNote, chordVars, scaleVars, intervalVars,
                        timeVars>>

\* click on a key of keyboard-game
GameKeyClick ==
    /\ section = "note-game-section"
    /\ \E k \in DOMAIN gameKeyboard : handleGameKeyClick(k)

(***************************************************************************)
(* Chord-builder.                                                          *)
(***************************************************************************)
\* nextChordRound(): round is chordRound at the call, c the chord drawn
nextChordRound(round, c) ==
    IF round >= chordTotalRounds
    THEN UNCHANGED <<currentChord, selectedNotes, roundResolved>>
    ELSE /\ currentChord' = c
         /\ selectedNotes' = <<>>
         /\ roundResolved' = FALSE

\* click on btn-chords-game
BtnChordsGame ==
    /\ section = "main-menu"
    /\ OnlyGame("chords")
    /\ showSection("chords-game-section")
    /\ chordRound' = 0
    /\ chordScore' = 0
    /\ \E c \in Range(CHORDS) : nextChordRound(0, c)
    /\ UNCHANGED <<timers, noteVars, scaleVars, intervalVars, timeVars>>

\* handleChordKeyClick without the removal of a note that is selected
handleChordKeyClick_pushOnly(sel, name) == Append(sel, name)

\* handleChordKeyClick(note, keyEl): the new selectedNotes
handleChordKeyClick(sel, name) ==
    LET idx == indexOf(sel, name)
    IN  IF idx >= 0 THEN splice1(sel, idx) ELSE Append(sel, name)

\* click on a key of chords-keyboard
ChordKeyClick ==
    /\ section = "chords-game-section"
    /\ \E k \in 1..NOTES_length :
          /\ indexOf(selectedNotes, NOTES[k].name) < 0
                => Len(selectedNotes) < MaxSelected
          /\ selectedNotes' = handleChordKeyClick(selectedNotes, NOTES[k].name)
    /\ UNCHANGED <<section, timers, roundResolved, chordRound, chordScore,
                   currentChord, noteVars, scaleVars, intervalVars, timeVars>>

\* the comparison of the check-chord handler with the selection left unsorted
chordMatches_unsorted(sel, chord) == join(sel) = join(sort(chord.notes))

\* userSet === correctSet of the check-chord handler
chordMatches(sel, chord) == join(sort(sel)) = join(sort(chord.notes))

\* the check-chord handler with chordScore++ outside the comparison
checkChord_alwaysScores ==
    IF currentChord = NULL THEN UNCHANGED vars
    ELSE /\ chordRound < RoundCap
         /\ CanSchedule
         /\ chordScore' = chordScore + 1
         /\ chordRound' = chordRound + 1
         /\ roundResolved' = TRUE
         /\ timers' = setTimeout("nextChordRound", 0)
         /\ UNCHANGED <<section, currentChord, selectedNotes, noteVars,
                        scaleVars, intervalVars, timeVars>>

\* the check-chord handler without chordRound++
checkChord_noRoundIncrement ==
    IF currentChord = NULL THEN UNCHANGED vars
    ELSE /\ chordRound < RoundCap
         /\ CanSchedule
         /\ chordScore' = IF chordMatches(selectedNotes, currentChord)
                          THEN chordScore + 1 ELSE chordScore
         /\ chordRound' = chordRound
         /\ roundResolved' = TRUE
         /\ timers' = setTimeout("nextChordRound", 0)
         /\ UNCHANGED <<section, currentChord, selectedNotes, noteVars,
                        scaleVars, intervalVars, timeVars>>

\* the check-chord click handler
checkChord ==
    IF currentChord = NULL THEN UNCHANGED vars
    ELSE /\ chordRound < RoundCap
         /\ CanSchedule
         /\ chordScore' = IF chordMatches(selectedNotes, currentChord)
                          THEN chordScore + 1 ELSE chordScore
         /\ chordRound' = chordRound + 1
         /\ roundResolved' = TRUE
         /\ timers' = setTimeout("nextChordRound", 0)
         /\ UNCHANGED <<section, currentChord, selectedNotes, noteVars,
                        scaleVars, intervalVars, timeVars>>

\* click on check-chord
CheckChord ==
    /\ section = "chords-game-section"
    /\ checkChord

(***************************************************************************)
(* Scale-practice.                                                         *)
(***************************************************************************)
\* nextScaleRound without scaleIndex = 0
nextScaleRound_keepsIndex(round, kb, s) ==
    IF round >= scaleTotalRounds
    THEN /\ currentScale' = currentScale
         /\ scaleIndex' = scaleIndex
         /\ scalesKeyboard' = kb
         /\ roundResolved' = roundResolved
    ELSE /\ currentScale' = s
         /\ scaleIndex' = scaleIndex
         /\ scalesKeyboard' = removeClasses(kb, {"correct", "wrong"})
         /\ roundResolved' = FALSE

\* nextScaleRound(): round is scaleRound and kb the keyboard at the call, s
\* the scale drawn
nextScaleRound(round, kb, s) ==
    IF round >= scaleTotalRounds
    THEN /\ currentScale' = currentScale
         /\ scaleIndex' = scaleIndex
         /\ scalesKeyboard' = kb
         /\ roundResolved' = roundResolved
    ELSE /\ currentScale' = s
         /\ scaleIndex' = 0
         /\ scalesKeyboard' = removeClasses(kb, {"correct", "wrong"})
         /\ roundResolved' = FALSE

\* click on btn-scales-game
BtnScalesGame ==
    /\ section = "main-menu"
    /\ OnlyGame("scales")
    /\ showSection("scales-game-section")
    /\ scaleRound' = 0
    /\ scaleScore' = 0
    /\ timers' = detachKeys(timers, "scaleWrongClear")
    /\ \E s \in Range(SCALES) : nextScaleRound(0, createKeyboard, s)
    /\ UNCHANGED <<noteVars, chordVars, intervalVars, timeVars>>

\* currentScale.notes[scaleIndex]; undefined past the end of the array
expectedScaleNote ==
    IF scaleIndex < Len(currentScale.notes)
    THEN currentScale.notes[scaleIndex + 1]
    ELSE "undefined"

\* handleScaleKeyClick with a wrong key sending the player back to the first
\* note of the scale
handleScaleKeyClick_wrongRestarts(k) ==
    IF currentScale = NULL THEN UNCHANGED vars
    ELSE IF "correct" \in scalesKeyboard[k] THEN UNCHANGED vars
    ELSE IF NOTES[k].name = expectedScaleNote
    THEN /\ scalesKeyboard' =
               [scalesKeyboard EXCEPT ![k] = (@ \cup {"correct"}) \ {"wrong"}]
         /\ scaleIndex' = scaleIndex + 1
         /\ IF scaleIndex + 1 >= Len(currentScale.notes)
            THEN /\ CanSchedule
                 /\ scaleScore' = scaleScore + 1
                 /\ scaleRound' = scaleRound + 1
                 /\ roundResolved' = TRUE
                 /\ timers' = setTimeout("nextScaleRound", 0)
            ELSE UNCHANGED <<scaleScore, scaleRound, roundResolved, timers>>
         /\ UNCHANGED <<section, currentScale, noteVars, chordVars,
                        intervalVars, timeVars>>
    ELSE /\ CanSchedule
         /\ scalesKeyboard' = [scalesKeyboard EXCEPT ![k] = @ \cup {"wrong"}]
         /\ timers' = setTimeout("scaleWrongClear", k)
         /\ scaleIndex' = 0
         /\ UNCHANGED <<section, roundResolved, scaleRound, scaleScore,
                        currentScale, noteVars, chordVars,
                        intervalVars, timeVars>>

\* handleScaleKeyClick(note, keyEl) for the key k of scales-keyboard
handleScaleKeyClick(k) ==
    IF currentScale = NULL THEN UNCHANGED vars
    ELSE IF "correct" \in scalesKeyboard[k] THEN UNCHANGED vars
    ELSE IF NOTES[k].name = expectedScaleNote
    THEN /\ scalesKeyboard' =
               [scalesKeyboard EXCEPT ![k] = (@ \cup {"correct"}) \ {"wrong"}]
         /\ scaleIndex' = scaleIndex + 1
         /\ IF scaleIndex + 1 >= Len(currentScale.notes)
            THEN /\ CanSchedule
                 /\ scaleScore' = scaleScore + 1
                 /\ scaleRound' = scaleRound + 1
                 /\ roundResolved' = TRUE
                 /\ timers' = setTimeout("nextScaleRound", 0)
            ELSE UNCHANGED <<scaleScore, scaleRound, roundResolved, timers>>
         /\ UNCHANGED <<section, currentScale, noteVars, chordVars,
                        intervalVars, timeVars>>
    ELSE /\ CanSchedule
         /\ scalesKeyboard' = [scalesKeyboard EXCEPT ![k] = @ \cup {"wrong"}]
         /\ timers' = setTimeout("scaleWrongClear", k)
         /\ UNCHANGED <<section, roundResolved, scaleRound, scaleScore,
                        currentScale, scaleIndex, noteVars, chordVars,
                        intervalVars, timeVars>>

\* click on a key of scales-keyboard
ScaleKeyClick ==
    /\ section = "scales-game-section"
    /\ \E k \in DOMAIN scalesKeyboard : handleScaleKeyClick(k)

(***************************************************************************)
(* Interval-trainer.                                                       *)
(***************************************************************************)
\* the exit condition with the steps of the interval counted twice
validPair_stepsTwice(rootIndex, intervalObj) ==
    ~(rootIndex + 2 * intervalObj.steps + 5 >= NOTES_length)

\* the exit condition with > in place of >=
validPair_offByOne(rootIndex, intervalObj) ==
    ~(rootIndex + intervalObj.steps > NOTES_length)

\* exit condition of the do-while loop of nextIntervalRound
validPair(rootIndex, intervalObj) ==
    ~(rootIndex + intervalObj.steps >= NOTES_length)

\* nextIntervalRound(): round is intervalRound and kb the keyboard at the
\* call; rootIndex and intervalObj are the values the loop ends with
nextIntervalRound(round, kb, rootIndex, intervalObj) ==
    IF round >= intervalTotalRounds
    THEN /\ intervalRoot' = intervalRoot
         /\ currentIntervalObj' = currentIntervalObj
         /\ intervalsKeyboard' = kb
         /\ roundResolved' = roundResolved
         /\ intervalDraw' = intervalDraw
    ELSE /\ validPair(rootIndex, intervalObj)
         /\ intervalRoot' = NOTES_at(rootIndex)
         /\ currentIntervalObj' = intervalObj
         /\ intervalsKeyboard' = removeClasses(kb, {"correct", "wrong"})
         /\ roundResolved' = FALSE
         /\ intervalDraw' = intervalDraw

\* click on btn-interval-game
BtnIntervalGame ==
    /\ section = "main-menu"
    /\ OnlyGame("interval")
    /\ showSection("interval-game-section")
    /\ intervalRound' = 0
    /\ intervalScore' = 0
    /\ timers' = detachKeys(timers, "intervalWrongClear")
    /\ \E rootIndex \in 0..(NOTES_length - 1), intervalObj \in Range(INTERVALS) :
          nextIntervalRound(0, createKeyboard, rootIndex, intervalObj)
    /\ UNCHANGED <<noteVars, chordVars, scaleVars, timeVars>>

\* handleIntervalKeyClick with the expected note looked up one key too low
handleIntervalKeyClick_offByOne(k) ==
    IF intervalRoot = NULL \/ currentIntervalObj = NULL THEN UNCHANGED vars
    ELSE IF intervalsKeyboard[k] \cap {"correct", "wrong"} # {}
    THEN UNCHANGED vars
    ELSE LET rootIndex == findIndex(intervalRoot.name)
             expectedIndex == rootIndex + currentIntervalObj.steps - 1
             expectedName == NOTES_at(expectedIndex).name
         IN  /\ CanSchedule
             /\ IF NOTES[k].name = expectedName
                THEN /\ intervalsKeyboard' =
                           [intervalsKeyboard EXCEPT ![k] = @ \cup {"correct"}]
                     /\ intervalScore' = intervalScore + 1
                     /\ intervalRound' = intervalRound + 1
                     /\ roundResolved' = TRUE
                     /\ timers' = setTimeout("nextIntervalRound", 0)
                ELSE /\ intervalsKeyboard' =
                           [intervalsKeyboard EXCEPT ![k] = @ \cup {"wrong"}]
                     /\ timers' = setTimeout("intervalWrongClear", k)
                     /\ UNCHANGED <<intervalScore, intervalRound,
                                    roundResolved>>
             /\ UNCHANGED <<section, intervalRoot, currentIntervalObj,
                            intervalDraw, noteVars, chordVars, scaleVars,
                            timeVars>>

\* handleIntervalKeyClick(note, keyEl) for the key k of intervals-keyboard
handleIntervalKeyClick(k) ==
    IF intervalRoot = NULL \/ currentIntervalObj = NULL THEN UNCHANGED vars
    ELSE IF intervalsKeyboard[k] \cap {"correct", "wrong"} # {}
    THEN UNCHANGED vars
    ELSE LET rootIndex == findIndex(intervalRoot.name)
             expectedIndex == rootIndex + currentIntervalObj.steps
             expectedName == NOTES_at(expectedIndex).name
         IN  /\ CanSchedule
             /\ IF NOTES[k].name = expectedName
                THEN /\ intervalsKeyboard' =
                           [intervalsKeyboard EXCEPT ![k] = @ \cup {"correct"}]
                     /\ intervalScore' = intervalScore + 1
                     /\ intervalRound' = intervalRound + 1
                     /\ roundResolved' = TRUE
                     /\ timers' = setTimeout("nextIntervalRound", 0)
                ELSE /\ intervalsKeyboard' =
                           [intervalsKeyboard EXCEPT ![k] = @ \cup {"wrong"}]
                     /\ timers' = setTimeout("intervalWrongClear", k)
                     /\ UNCHANGED <<intervalScore, intervalRound,
                                    roundResolved>>
             /\ UNCHANGED <<section, intervalRoot, currentIntervalObj,
                            intervalDraw, noteVars, chordVars, scaleVars,
                            timeVars>>

\* click on a key of intervals-keyboard
IntervalKeyClick ==
    /\ section = "interval-game-section"
    /\ \E k \in DOMAIN intervalsKeyboard : handleIntervalKeyClick(k)

(***************************************************************************)
(* Time-signature.  currentMeasureTotal is kept in hundredths of a beat,   *)
(* the precision Math.round(total * 100) / 100 leaves.                     *)
(***************************************************************************)
\* nextTimeRound(): round is timeRound and total currentMeasureTotal at the
\* call, ts the time signature drawn
nextTimeRound(round, total, ts) ==
    IF round >= timeTotalRounds
    THEN /\ currentTimeSig' = currentTimeSig
         /\ currentMeasureTotal' = total
         /\ roundResolved' = roundResolved
    ELSE /\ currentTimeSig' = ts
         /\ currentMeasureTotal' = 0
         /\ roundResolved' = FALSE

\* click on btn-time-game
BtnTimeGame ==
    /\ section = "main-menu"
    /\ OnlyGame("time")
    /\ showSection("time-game-section")
    /\ timeRound' = 0
    /\ timeScore' = 0
    /\ \E ts \in Range(TIME_SIGS) : nextTimeRound(0, 0, ts)
    /\ UNCHANGED <<timers, noteVars, chordVars, scaleVars, intervalVars>>

\* the completion test taking every total that reaches the beat count
measureComplete_atLeast(total, beats) == total >= 100 * beats

\* Math.abs(total - beats) < 0.001 with total in hundredths of a beat
measureComplete(total, beats) ==
    LET diff == total - 100 * beats
        abs == IF diff < 0 THEN -diff ELSE diff
    IN  10 * abs < 1

\* handleTimeNoteClick without timeRound++ in the completion branch
handleTimeNoteClick_noRoundIncrement(value) ==
    IF currentTimeSig = NULL THEN UNCHANGED vars
    ELSE LET total == currentMeasureTotal + value
         IN  /\ total <= 100 * MaxMeasureBeats
             /\ currentMeasureTotal' = total
             /\ IF measureComplete(total, currentTimeSig.beats)
                THEN /\ timeRound < RoundCap
                     /\ CanSchedule
                     /\ timeScore' = timeScore + 1
                     /\ timeRound' = timeRound
                     /\ roundResolved' = TRUE
                     /\ timers' = setTimeout("nextTimeRound", 0)
                ELSE IF total > 100 * currentTimeSig.beats
                THEN /\ CanSchedule
                     /\ timers' = setTimeout("measureReset", 0)
                     /\ UNCHANGED <<timeScore, timeRound, roundResolved>>
                ELSE UNCHANGED <<timeScore, timeRound, roundResolved, timers>>
             /\ UNCHANGED <<section, currentTimeSig, noteVars, chordVars,
                            scaleVars, intervalVars>>

\* handleTimeNoteClick(value), value in hundredths of a beat
handleTimeNoteClick(value) ==
    IF currentTimeSig = NULL THEN UNCHANGED vars
    ELSE LET total == currentMeasureTotal + value
         IN  /\ total <= 100 * MaxMeasureBeats
             /\ currentMeasureTotal' = total
             /\ IF measureComplete(total, currentTimeSig.beats)
                THEN /\ timeRound < RoundCap
                     /\ CanSchedule
                     /\ timeScore' = timeScore + 1
                     /\ timeRound' = timeRound + 1
                     /\ roundResolved' = TRUE
                     /\ timers' = setTimeout("nextTimeRound", 0)
                ELSE IF total > 100 * currentTimeSig.beats
                THEN /\ CanSchedule
                     /\ timers' = setTimeout("measureReset", 0)
                     /\ UNCHANGED <<timeScore, timeRound, roundResolved>>
                ELSE UNCHANGED <<timeScore, timeRound, roundResolved, timers>>
             /\ UNCHANGED <<section, currentTimeSig, noteVars, chordVars,
                            scaleVars, intervalVars>>

\* click on a .note-btn of time-buttons
TimeNoteClick ==
    /\ section = "time-game-section"
    /\ \E value \in NoteBtnValues : handleTimeNoteClick(value)

\* the time-reset click handler with the score reset along with the measure
timeReset_resetsScore ==
    /\ IF currentTimeSig # NULL
       THEN currentMeasureTotal' = 0 /\ timeScore' = 0
       ELSE currentMeasureTotal' = currentMeasureTotal
            /\ timeScore' = timeScore
    /\ UNCHANGED <<section, timers, roundResolved, timeRound,
                   currentTimeSig, noteVars, chordVars, scaleVars,
                   intervalVars>>

\* the time-reset click handler
timeReset ==
    /\ IF currentTimeSig # NULL
       THEN currentMeasureTotal' = 0
       ELSE currentMeasureTotal' = currentMeasureTotal
    /\ UNCHANGED <<section, timers, roundResolved, timeRound, timeScore,
                   currentTimeSig, noteVars, chordVars, scaleVars,
                   intervalVars>>

\* click on time-reset
TimeReset ==
    /\ section = "time-game-section"
    /\ timeReset

(***************************************************************************)
(* Timer callbacks.                                                        *)
(***************************************************************************)
\* key.classList.remove('wrong') on the key a callback closes over; a
\* detached key (-1) is no key of the keyboard
clearWrong(kb, key) ==
    IF key \in DOMAIN kb THEN [kb EXCEPT ![key] = @ \ {"wrong"}] ELSE kb

\* the body of the callback t
runCallback(t) ==
    CASE t.fn = "nextRound" ->
           /\ \E n \in Range(NOTES) : nextRound(currentRound, gameKeyboard, n)
           /\ UNCHANGED <<currentRound, score, chordVars, scaleVars,
                          intervalVars, timeVars>>
      [] t.fn = "nextChordRound" ->
           /\ \E c \in Range(CHORDS) : nextChordRound(chordRound, c)
           /\ UNCHANGED <<chordRound, chordScore, noteVars, scaleVars,
                          intervalVars, timeVars>>
      [] t.fn = "nextScaleRound" ->
           /\ \E s \in Range(SCALES) :
                 nextScaleRound(scaleRound, scalesKeyboard, s)
           /\ UNCHANGED <<scaleRound, scaleScore, noteVars, chordVars,
                          intervalVars, timeVars>>
      [] t.fn = "scaleWrongClear" ->
           /\ scalesKeyboard' = clearWrong(scalesKeyboard, t.key)
           /\ UNCHANGED <<roundResolved, scaleRound, scaleScore, currentScale,
                          scaleIndex, noteVars, chordVars, intervalVars,
                          timeVars>>
      [] t.fn = "nextIntervalRound" ->
           /\ \E rootIndex \in 0..(NOTES_length - 1),
                 intervalObj \in Range(INTERVALS) :
                 nextIntervalRound(intervalRound, intervalsKeyboard,
                                   rootIndex, intervalObj)
           /\ UNCHANGED <<intervalRound, intervalScore, noteVars, chordVars,
                          scaleVars, timeVars>>
      [] t.fn = "intervalWrongClear" ->
           /\ intervalsKeyboard' = clearWrong(intervalsKeyboard, t.key)
           /\ UNCHANGED <<roundResolved, intervalRound, intervalScore,
                          intervalRoot, currentIntervalObj, intervalDraw,
                          noteVars, chordVars, scaleVars, timeVars>>
      [] t.fn = "nextTimeRound" ->
           /\ \E ts \in Range(TIME_SIGS) :
                 nextTimeRound(timeRound, currentMeasureTotal, ts)
           /\ UNCHANGED <<timeRound, timeScore, noteVars, chordVars,
                          scaleVars, intervalVars>>
      [] t.fn = "measureReset" ->
           /\ currentMeasureTotal' = 0
           /\ UNCHANGED <<roundResolved, timeRound, timeScore, currentTimeSig,
                          noteVars, chordVars, scaleVars, intervalVars>>

\* a pending callback runs
Timeout ==
    \E i \in DOMAIN timers :
        /\ CanFire(i)
        /\ timers' = removeTimer(i)
        /\ section' = section
        /\ runCallback(timers[i])

Next ==
    \/ BackButton
    \/ BtnNoteGame
    \/ GameKeyClick
    \/ BtnChordsGame
    \/ ChordKeyClick
    \/ CheckChord
    \/ BtnScalesGame
    \/ ScaleKeyClick
    \/ BtnIntervalGame
    \/ IntervalKeyClick
    \/ BtnTimeGame
    \/ TimeNoteClick
    \/ TimeReset
    \/ Timeout

Spec == Init /\ [][Next]_vars

(***************************************************************************)
(* One mini-game on its own: the same actions, restricted to the controls  *)
(* of that mini-game.                                                      *)
(***************************************************************************)
NextNote == BackButton \/ BtnNoteGame \/ GameKeyClick \/ Timeout

SpecNote == Init /\ [][NextNote]_vars

NextChords ==
    BackButton \/ BtnChordsGame \/ ChordKeyClick \/ CheckChord \/ Timeout

SpecChords == Init /\ [][NextChords]_vars

NextScales == BackButton \/ BtnScalesGame \/ ScaleKeyClick \/ Timeout

SpecScales == Init /\ [][NextScales]_vars

NextInterval == BackButton \/ BtnIntervalGame \/ IntervalKeyClick \/ Timeout

SpecInterval == Init /\ [][NextInterval]_vars

NextTime ==
    BackButton \/ BtnTimeGame \/ TimeNoteClick \/ TimeReset \/ Timeout

SpecTime == Init /\ [][NextTime]_vars

\* the time-signature game with every pending callback run in the end, as
\* the timers of the browser do
SpecTimeFair == SpecTime /\ WF_vars(Timeout)

\* note-match and interval-trainer, the two games whose advance callback
\* and whose marks on the keys meet in the claims on round accounting
NextNoteInterval ==
    \/ BackButton
    \/ BtnNoteGame
    \/ GameKeyClick
    \/ BtnIntervalGame
    \/ IntervalKeyClick
    \/ Timeout

SpecNoteInterval == Init /\ [][NextNoteInterval]_vars

\* one session of note-match, chord-builder, interval-trainer or
\* time-signature: the game is entered and played without leaving it; every
\* pending callback runs in the end, as each timer of the browser does
NextSession ==
    \/ BtnNoteGame
    \/ GameKeyClick
    \/ BtnChordsGame
    \/ ChordKeyClick
    \/ CheckChord
    \/ BtnIntervalGame
    \/ IntervalKeyClick
    \/ BtnTimeGame
    \/ TimeNoteClick
    \/ TimeReset
    \/ Timeout

\* the pending callback fn runs
TimeoutOf(fn) ==
    \E i \in DOMAIN timers :
        /\ timers[i].fn = fn
        /\ CanFire(i)
        /\ timers' = removeTimer(i)
        /\ section' = section
        /\ runCallback(timers[i])

\* the callbacks the four games of a session schedule
SessionCallbacks ==
    {"nextRound", "nextChordRound", "nextIntervalRound", "intervalWrongClear",
     "nextTimeRound", "measureReset"}

SpecSessionFair ==
    /\ Init
    /\ [][NextSession]_vars
    /\ \A fn \in SessionCallbacks : WF_vars(TimeoutOf(fn))

\* the four games whose answer handlers count a round only when they count
\* a point: note-match, scale-practice, interval-trainer and time-signature
NextScoredGames ==
    \/ BackButton
    \/ BtnNoteGame
    \/ GameKeyClick
    \/ BtnScalesGame
    \/ ScaleKeyClick
    \/ BtnIntervalGame
    \/ IntervalKeyClick
    \/ BtnTimeGame
    \/ TimeNoteClick
    \/ TimeReset
    \/ Timeout

SpecScoredGames == Init /\ [][NextScoredGames]_vars

(***************************************************************************)
(* Interval-trainer with the do-while loop of nextIntervalRound taken one  *)
(* iteration at a time.  The loop runs inside one handler or callback, so  *)
(* no other event is handled while it runs.                                *)
(***************************************************************************)
loopIdle == intervalDraw.pc = "idle"

\* nextIntervalRound() up to the do-while loop
nextIntervalRound_begin(round, kb) ==
    IF round >= intervalTotalRounds
    THEN /\ intervalsKeyboard' = kb
         /\ intervalDraw' = intervalDraw
    ELSE /\ intervalsKeyboard' = removeClasses(kb, {"correct", "wrong"})
         /\ intervalDraw' = [NoDraw EXCEPT !.pc = "loop"]

\* one iteration of the loop, which draws rootIndex and intervalObj, and
\* the rest of nextIntervalRound() when the loop ends with it
loopIteration(rootIndex, intervalObj) ==
    /\ intervalDraw.pc = "loop"
    /\ IF validPair(rootIndex, intervalObj)
       THEN /\ intervalRoot' = NOTES_at(rootIndex)
            /\ currentIntervalObj' = intervalObj
            /\ roundResolved' = FALSE
            /\ intervalDraw' = NoDraw
       ELSE /\ intervalDraw' = [pc |-> "loop", rootIndex |-> rootIndex,
                                intervalObj |-> intervalObj]
            /\ UNCHANGED <<intervalRoot, currentIntervalObj, roundResolved>>
    /\ UNCHANGED <<section, timers, intervalRound, intervalScore,
                   intervalsKeyboard, noteVars, chordVars, scaleVars,
                   timeVars>>

\* an iteration of the running loop, with any draw
LoopIteration ==
    \E rootIndex \in 0..(NOTES_length - 1), intervalObj \in Range(INTERVALS) :
        loopIteration(rootIndex, intervalObj)

\* an iteration whose draw ends the loop
LoopExit ==
    \E rootIndex \in 0..(NOTES_length - 1), intervalObj \in Range(INTERVALS) :
        validPair(rootIndex, intervalObj) /\ loopIteration(rootIndex, intervalObj)

\* click on btn-interval-game, up to the loop
BtnIntervalGameLoop ==
    /\ loopIdle
    /\ section = "main-menu"
    /\ OnlyGame("interval")
    /\ showSection("interval-game-section")
    /\ intervalRound' = 0
    /\ intervalScore' = 0
    /\ timers' = detachKeys(timers, "intervalWrongClear")
    /\ nextIntervalRound_begin(0, createKeyboard)
    /\ UNCHANGED <<roundResolved, intervalRoot, currentIntervalObj, noteVars,
                   chordVars, scaleVars, timeVars>>

\* a pending callback runs; the advance callback runs up to the loop
TimeoutLoop ==
    /\ loopIdle
    /\ \E i \in DOMAIN timers :
          /\ CanFire(i)
          /\ timers' = removeTimer(i)
          /\ section' = section
          /\ IF timers[i].fn = "nextIntervalRound"
             THEN /\ nextIntervalRound_begin(intervalRound, intervalsKeyboard)
                  /\ UNCHANGED <<roundResolved, intervalRound, intervalScore,
                                 intervalRoot, currentIntervalObj, noteVars,
                                 chordVars, scaleVars, timeVars>>
             ELSE runCallback(timers[i])

NextIntervalLoop ==
    \/ (loopIdle /\ BackButton)
    \/ BtnIntervalGameLoop
    \/ LoopIteration
    \/ (loopIdle /\ IntervalKeyClick)
    \/ TimeoutLoop

\* fair random draws: a draw that stays possible is made in the end
SpecIntervalLoopFair ==
    /\ Init
    /\ [][NextIntervalLoop]_vars
    /\ WF_vars(LoopExit)

(***************************************************************************)
(* Vocabulary of the properties.                                           *)
(***************************************************************************)
rounds == <<currentRound, chordRound, scaleRound, intervalRound, timeRound>>
scores == <<score, chordScore, scaleScore, intervalScore, timeScore>>

\* a submission: a key click of a game keyboard, a check-chord press or a
\* beat-button press
Submission ==
    \/ GameKeyClick
    \/ CheckChord
    \/ ScaleKeyClick
    \/ IntervalKeyClick
    \/ TimeNoteClick

\* the selection and the target chord hold the same note names
SameNoteSet == Range(selectedNotes) = Range(currentChord.notes)

(***************************************************************************)
(* C1.  In every mini-game the round index stays between 0 and the round   *)
(* limit of the game (5, 5, 3, 5, 5).                                      *)
(***************************************************************************)
C1_RoundIndexWithinLimit ==
    /\ currentRound \in 0..totalRounds
    /\ chordRound \in 0..chordTotalRounds
    /\ scaleRound \in 0..scaleTotalRounds
    /\ intervalRound \in 0..intervalTotalRounds
    /\ timeRound \in 0..timeTotalRounds

(***************************************************************************)
(* C2.  In every mini-game, in every reachable state, the score is at      *)
(* least 0 and at most the round index of the game.                        *)
(***************************************************************************)
C2_ScoreWithinRoundIndex ==
    /\ 0 <= score /\ score <= currentRound
    /\ 0 <= chordScore /\ chordScore <= chordRound
    /\ 0 <= scaleScore /\ scaleScore <= scaleRound
    /\ 0 <= intervalScore /\ intervalScore <= intervalRound
    /\ 0 <= timeScore /\ timeScore <= timeRound

\* chord-builder after three submissions of which two scored
C2_Witness == chordRound = 3 /\ chordScore = 2

(***************************************************************************)
(* C3.  A callback that runs while the section of the mini-game that       *)
(* scheduled it is no longer shown changes none of that game's target,     *)
(* round index, score or per-round progress.                               *)
(***************************************************************************)
C3_StaleCallbacksInert ==
    [][(section = "main-menu" /\ Timeout) =>
         UNCHANGED <<currentNote, currentChord, currentScale, intervalRoot,
                     currentIntervalObj, currentTimeSig, rounds, scores,
                     selectedNotes, scaleIndex, currentMeasureTotal>>]_vars

(***************************************************************************)
(* C4.  The target of a round that has been drawn and is still awaiting    *)
(* its answer is replaced by no step other than an entry of the mini-game: *)
(* by no wrong answer and by no delayed callback.                          *)
(***************************************************************************)
C4_TargetHeldUntilResolved ==
    [][(/\ ~roundResolved
        /\ ~(\/ BtnNoteGame \/ BtnChordsGame \/ BtnScalesGame
             \/ BtnIntervalGame \/ BtnTimeGame)) =>
         UNCHANGED <<currentNote, currentChord, currentScale, intervalRoot,
                     currentIntervalObj, currentTimeSig>>]_vars

(***************************************************************************)
(* C5.  A submission made after a round has resolved and before the next   *)
(* round has started, or while no round is active, changes neither a round *)
(* index nor a score.                                                      *)
(***************************************************************************)
C5_SubmissionAfterResolveIsNoOp ==
    [][(roundResolved /\ Submission) => UNCHANGED <<rounds, scores>>]_vars

(***************************************************************************)
(* C6.  Once the round index of a mini-game has reached its round limit,   *)
(* no step other than an entry of that mini-game from the menu changes its *)
(* round index or its score.                                               *)
(***************************************************************************)
C6_CompletionIsTerminal ==
    [][/\ (currentRound >= totalRounds /\ ~BtnNoteGame)
            => UNCHANGED <<currentRound, score>>
       /\ (chordRound >= chordTotalRounds /\ ~BtnChordsGame)
            => UNCHANGED <<chordRound, chordScore>>
       /\ (scaleRound >= scaleTotalRounds /\ ~BtnScalesGame)
            => UNCHANGED <<scaleRound, scaleScore>>
       /\ (intervalRound >= intervalTotalRounds /\ ~BtnIntervalGame)
            => UNCHANGED <<intervalRound, intervalScore>>
       /\ (timeRound >= timeTotalRounds /\ ~BtnTimeGame)
            => UNCHANGED <<timeRound, timeScore>>]_vars

C8_LastNoteCompletesScale ==
    (/\ section = "scales-game-section"
     /\ currentScale # NULL
     /\ scaleIndex = Len(currentScale.notes) - 1
     /\ CanSchedule) =>
        ENABLED (\E k \in DOMAIN scalesKeyboard :
                    /\ NOTES[k].name = expectedScaleNote
                    /\ handleScaleKeyClick(k)
                    /\ scaleIndex' = Len(currentScale.notes)
                    /\ scaleScore' = scaleScore + 1
                    /\ scaleRound' = scaleRound + 1
                    /\ timers' = setTimeout("nextScaleRound", 0))

(***************************************************************************)
(* C9.  In chord-builder a check-chord submission is judged correct (it    *)
(* scores) if and only if the set of selected note names equals the set of *)
(* the three note names of the target chord, whatever the order in which   *)
(* the keys were selected and whatever the target.                         *)
(***************************************************************************)
C9_CorrectIffSameNoteSet ==
    [][(CheckChord /\ currentChord # NULL) =>
         ((chordScore' = chordScore + 1) <=> SameNoteSet)]_vars

\* a scored submission whose keys were selected in another order than the
\* chord lists its notes
C9_Witness ==
    /\ section = "chords-game-section"
    /\ roundResolved
    /\ chordRound = 1 /\ chordScore = 1
    /\ Len(timers) = 1
    /\ SameNoteSet
    /\ selectedNotes # currentChord.notes
    /\ selectedNotes # sort(currentChord.notes)

(***************************************************************************)
(* C10.  In note-match a click on the not-yet-marked key whose name equals *)
(* the target increases score and currentRound by exactly one; a click on  *)
(* any other key leaves currentRound, score and currentNote unchanged.     *)
(***************************************************************************)
C10_NoteMatchClick ==
    [][\A k \in 1..NOTES_length :
         (/\ section = "note-game-section"
          /\ k \in DOMAIN gameKeyboard
          /\ currentNote # NULL
          /\ handleGameKeyClick(k)) =>
            IF NOTES[k].name = currentNote.name /\ gameKeyboard[k] = {}
            THEN score' = score + 1 /\ currentRound' = currentRound + 1
            ELSE UNCHANGED <<currentRound, score, currentNote>>]_vars

\* second round: one wrong key was clicked, then the target key
C10_Witness ==
    /\ section = "note-game-section"
    /\ currentRound = 2 /\ score = 2
    /\ roundResolved
    /\ \E k \in DOMAIN gameKeyboard :
          NOTES[k].name = currentNote.name /\ gameKeyboard[k] = {"correct"}
    /\ \E k \in DOMAIN gameKeyboard : gameKeyboard[k] = {"wrong"}

(***************************************************************************)
(* C11.  In scale-practice a click on a key whose note is not the expected *)
(* note of the sequence leaves scaleIndex, scaleRound, scaleScore and      *)
(* currentScale unchanged, however many such clicks follow one another;    *)
(* scaleIndex increases only by a click on the expected note, and then by  *)
(* exactly one.                                                            *)
(***************************************************************************)
C11_OnlyExpectedNoteAdvances ==
    [][/\ \A k \in 1..NOTES_length :
            (/\ section = "scales-game-section"
             /\ currentScale # NULL
             /\ NOTES[k].name # expectedScaleNote
             /\ handleScaleKeyClick(k)) =>
                UNCHANGED <<scaleIndex, scaleRound, scaleScore, currentScale>>
       /\ scaleIndex' > scaleIndex =>
            /\ scaleIndex' = scaleIndex + 1
            /\ section = "scales-game-section"
            /\ currentScale # NULL
            /\ \E k \in 1..NOTES_length :
                  /\ NOTES[k].name = expectedScaleNote
                  /\ handleScaleKeyClick(k)]_vars

\* the first note of the scale was clicked, then two keys that are not the
\* second note, one after the other
C11_Witness ==
    /\ section = "scales-game-section"
    /\ scaleIndex = 1
    /\ Len(timers) = 2
    /\ \E j, k \in DOMAIN scalesKeyboard :
          /\ j # k
          /\ "wrong" \in scalesKeyboard[j]
          /\ "wrong" \in scalesKeyboard[k]

(***************************************************************************)
(* C12.  In interval-trainer every root and interval offered as a target   *)
(* satisfy rootIndex + steps <= 6, so that the catalog holds a note at     *)
(* rootIndex + steps.                                                      *)
(***************************************************************************)
C12_ExpectedNoteInCatalog ==
    (intervalRoot # NULL /\ currentIntervalObj # NULL) =>
        LET rootIndex == findIndex(intervalRoot.name)
        IN  /\ rootIndex >= 0
            /\ rootIndex + currentIntervalObj.steps <= 6
            /\ (rootIndex + currentIntervalObj.steps + 1) \in DOMAIN NOTES

\* the third target, drawn by the callback of the second answer, has its
\* expected note on the last key
C12_Witness ==
    /\ section = "interval-game-section"
    /\ intervalRound = 2
    /\ ~roundResolved
    /\ findIndex(intervalRoot.name) + currentIntervalObj.steps = 6

(***************************************************************************)
(* C13.  In interval-trainer, while a target is set, a click on a key that *)
(* carries no mark is judged correct exactly when the note of the key is   *)
(* the catalog note at rootIndex + steps: such a click increases           *)
(* intervalScore and intervalRound by exactly one, and a click on any      *)
(* other unmarked key leaves intervalRound, intervalScore, the root and    *)
(* the interval unchanged.                                                 *)
(***************************************************************************)
C13_IntervalClick ==
    [][\A k \in 1..NOTES_length :
         (/\ section = "interval-game-section"
          /\ intervalRoot # NULL /\ currentIntervalObj # NULL
          /\ intervalsKeyboard[k] = {}
          /\ handleIntervalKeyClick(k)) =>
            IF k = findIndex(intervalRoot.name) + currentIntervalObj.steps + 1
            THEN /\ intervalScore' = intervalScore + 1
                 /\ intervalRound' = intervalRound + 1
                 /\ "correct" \in intervalsKeyboard'[k]
            ELSE /\ UNCHANGED <<intervalRound, intervalScore, intervalRoot,
                                currentIntervalObj>>
                 /\ "wrong" \in intervalsKeyboard'[k]]_vars

\* second round: one wrong key was clicked, then the expected key
C13_Witness ==
    /\ section = "interval-game-section"
    /\ intervalRound = 2 /\ intervalScore = 2
    /\ roundResolved
    /\ \E k \in DOMAIN intervalsKeyboard :
          /\ k = findIndex(intervalRoot.name) + currentIntervalObj.steps + 1
          /\ intervalsKeyboard[k] = {"correct"}
    /\ \E k \in DOMAIN intervalsKeyboard : intervalsKeyboard[k] = {"wrong"}

(***************************************************************************)
(* C14.  In time-signature a beat submission that brings                   *)
(* currentMeasureTotal to exactly the beat count of the target resolves    *)
(* the round as correct: timeScore and timeRound each increase by exactly  *)
(* one and the start of the next round is scheduled.                       *)
(***************************************************************************)
C14_ExactTotalCompletesMeasure ==
    [][\A value \in NoteBtnValues :
         (/\ section = "time-game-section"
          /\ currentTimeSig # NULL
          /\ currentMeasureTotal + value = 100 * currentTimeSig.beats
          /\ handleTimeNoteClick(value)) =>
            /\ timeScore' = timeScore + 1
            /\ timeRound' = timeRound + 1
            /\ timers' = Append(timers, [fn |-> "nextTimeRound", key |-> 0])]_vars

\* the second measure was completed by a submission that followed two
\* others of the same round
C14_Witness ==
    /\ section = "time-game-section"
    /\ timeRound = 2 /\ timeScore = 2
    /\ roundResolved
    /\ currentMeasureTotal = 100 * currentTimeSig.beats
    /\ currentTimeSig.beats = 3
    /\ timers = <<[fn |-> "nextTimeRound", key |-> 0]>>

(***************************************************************************)
(* C15.  In time-signature a beat submission that takes the running total  *)
(* above the beat count of the target changes neither timeRound nor        *)
(* timeScore nor the target, and the running total is reset to 0           *)
(* afterwards: the submission schedules the reset, the reset sets the      *)
(* total to 0 when it runs, and a pending reset leads to a total of 0.     *)
(***************************************************************************)
C15_OverflowResetsMeasure ==
    /\ [][\A value \in NoteBtnValues :
            (/\ section = "time-game-section"
             /\ currentTimeSig # NULL
             /\ currentMeasureTotal + value > 100 * currentTimeSig.beats
             /\ handleTimeNoteClick(value)) =>
               /\ UNCHANGED <<timeRound, timeScore, currentTimeSig>>
               /\ timers' = Append(timers, [fn |-> "measureReset", key |-> 0])]_vars
    /\ [][(\E i \in DOMAIN timers :
              /\ timers[i].fn = "measureReset"
              /\ CanFire(i)
              /\ timers' = removeTimer(i)
              /\ Timeout) => currentMeasureTotal' = 0]_vars
    /\ (\E i \in DOMAIN timers : timers[i].fn = "measureReset")
          ~> (currentMeasureTotal = 0)

\* second round: a submission took the total above the beat count and its
\* reset is pending
C15_Witness ==
    /\ section = "time-game-section"
    /\ timeRound = 1 /\ timeScore = 1
    /\ ~roundResolved
    /\ currentMeasureTotal > 100 * currentTimeSig.beats
    /\ timers = <<[fn |-> "measureReset", key |-> 0]>>

(***************************************************************************)
(* C16.  Immediately after a mini-game is entered from the menu, for the   *)
(* first time or again, its round index is 0, its score is 0, its          *)
(* per-round progress is empty (selectedNotes empty, scaleIndex 0,         *)
(* currentMeasureTotal 0) and its target is a member of its catalog.       *)
(***************************************************************************)
C16_EntryStartsFreshSession ==
    [][section = "main-menu" =>
         /\ section' = "note-game-section" =>
               /\ currentRound' = 0 /\ score' = 0
               /\ currentNote' \in Range(NOTES)
         /\ section' = "chords-game-section" =>
               /\ chordRound' = 0 /\ chordScore' = 0
               /\ selectedNotes' = <<>>
               /\ currentChord' \in Range(CHORDS)
         /\ section' = "scales-game-section" =>
               /\ scaleRound' = 0 /\ scaleScore' = 0
               /\ scaleIndex' = 0
               /\ currentScale' \in Range(SCALES)
         /\ section' = "interval-game-section" =>
               /\ intervalRound' = 0 /\ intervalScore' = 0
               /\ intervalRoot' \in Range(NOTES)
               /\ currentIntervalObj' \in Range(INTERVALS)
         /\ section' = "time-game-section" =>
               /\ timeRound' = 0 /\ timeScore' = 0
               /\ currentMeasureTotal' = 0
               /\ currentTimeSig' \in Range(TIME_SIGS)]_vars

\* scale-practice entered again while the callback of a wrong click of the
\* session before is still pending
C16_Witness ==
    /\ section = "scales-game-section"
    /\ scaleIndex = 0
    /\ scalesKeyboard = createKeyboard
    /\ \E i \in DOMAIN timers :
          timers[i].fn = "scaleWrongClear" /\ timers[i].key = -1

\* the pending callback fn runs: it leaves the timers, which no other step
\* shortens
RunsCallback(fn) ==
    \E i \in DOMAIN timers :
        /\ timers[i].fn = fn
        /\ CanFire(i)
        /\ timers' = removeTimer(i)

(***************************************************************************)
(* C17.  A round-start function invoked while the round index of its game  *)
(* is at or above the round limit draws no target and leaves the round     *)
(* index, the score and the per-round progress unchanged; invoked while    *)
(* the round index is below the limit it sets the target to a member of    *)
(* the catalog and resets the per-round progress.  The function is invoked *)
(* by the advance callback and, with round index 0, by the entry of the    *)
(* game.                                                                   *)
(***************************************************************************)
C17_RoundStartRespectsLimit ==
    [][/\ RunsCallback("nextRound") =>
            IF currentRound >= totalRounds
            THEN UNCHANGED noteVars
            ELSE /\ currentNote' \in Range(NOTES)
                 /\ gameKeyboard' = createKeyboard
                 /\ UNCHANGED <<currentRound, score>>
       /\ RunsCallback("nextChordRound") =>
            IF chordRound >= chordTotalRounds
            THEN UNCHANGED chordVars
            ELSE /\ currentChord' \in Range(CHORDS)
                 /\ selectedNotes' = <<>>
                 /\ UNCHANGED <<chordRound, chordScore>>
       /\ RunsCallback("nextScaleRound") =>
            IF scaleRound >= scaleTotalRounds
            THEN UNCHANGED scaleVars
            ELSE /\ currentScale' \in Range(SCALES)
                 /\ scaleIndex' = 0
                 /\ UNCHANGED <<scaleRound, scaleScore>>
       /\ RunsCallback("nextIntervalRound") =>
            IF intervalRound >= intervalTotalRounds
            THEN UNCHANGED intervalVars
            ELSE /\ intervalRoot' \in Range(NOTES)
                 /\ currentIntervalObj' \in Range(INTERVALS)
                 /\ UNCHANGED <<intervalRound, intervalScore>>
       /\ RunsCallback("nextTimeRound") =>
            IF timeRound >= timeTotalRounds
            THEN UNCHANGED timeVars
            ELSE /\ currentTimeSig' \in Range(TIME_SIGS)
                 /\ currentMeasureTotal' = 0
                 /\ UNCHANGED <<timeRound, timeScore>>
       /\ BtnNoteGame => currentNote' \in Range(NOTES)
       /\ BtnChordsGame =>
            (currentChord' \in Range(CHORDS) /\ selectedNotes' = <<>>)
       /\ BtnScalesGame =>
            (currentScale' \in Range(SCALES) /\ scaleIndex' = 0)
       /\ BtnIntervalGame =>
            /\ intervalRoot' \in Range(NOTES)
            /\ currentIntervalObj' \in Range(INTERVALS)
       /\ BtnTimeGame =>
            (currentTimeSig' \in Range(TIME_SIGS)
             /\ currentMeasureTotal' = 0)]_vars

\* note-match after the callback of the fifth answer has run: no sixth
\* target was drawn and the marks of the fifth round are still on the keys
C17_Witness ==
    /\ section = "note-game-section"
    /\ currentRound = totalRounds
    /\ timers = <<>>
    /\ roundResolved
    /\ \E k \in DOMAIN gameKeyboard : "correct" \in gameKeyboard[k]

(***************************************************************************)
(* C18.  In chord-builder a click on a key only toggles the note of the    *)
(* key in selectedNotes: a selected note leaves the selection, an          *)
(* unselected note joins it.  The click changes neither chordRound nor     *)
(* chordScore nor currentChord and judges nothing: no round is resolved    *)
(* and no callback is scheduled.                                           *)
(***************************************************************************)
C18_KeyClickOnlyToggles ==
    [][ChordKeyClick =>
         /\ UNCHANGED <<chordRound, chordScore, currentChord, roundResolved,
                        timers>>
         /\ Cardinality(Range(selectedNotes')) = Len(selectedNotes')
         /\ \E k \in 1..NOTES_length :
               Range(selectedNotes') =
                   IF NOTES[k].name \in Range(selectedNotes)
                   THEN Range(selectedNotes) \ {NOTES[k].name}
                   ELSE Range(selectedNotes) \cup {NOTES[k].name}]_vars

\* the three notes of the target chord are selected, in another order than
\* the chord lists them, and nothing has been judged
C18_Witness ==
    /\ section = "chords-game-section"
    /\ chordRound = 0 /\ chordScore = 0
    /\ ~roundResolved
    /\ timers = <<>>
    /\ Len(selectedNotes) = 3
    /\ SameNoteSet
    /\ selectedNotes # currentChord.notes

(***************************************************************************)
(* C19.  In time-signature a partial running total (above 0 and below the  *)
(* beat count of the target) is changed only by a beat submission, by a    *)
(* press of the reset button or by the start of a new round (an entry of   *)
(* the game, or the advance callback drawing a target); in particular the  *)
(* reset callback of an overflow that happened earlier does not alter it.  *)
(***************************************************************************)
C19_PartialTotalHeld ==
    [][(/\ currentTimeSig # NULL
        /\ 0 < currentMeasureTotal
        /\ currentMeasureTotal < 100 * currentTimeSig.beats
        /\ currentMeasureTotal' # currentMeasureTotal) =>
            \/ TimeNoteClick
            \/ TimeReset
            \/ BtnTimeGame
            \/ (RunsCallback("nextTimeRound")
                /\ timeRound < timeTotalRounds)]_vars

(***************************************************************************)
(* C20.  In note-match and in interval-trainer, whatever the interleaving  *)
(* of clicks, exits, entries and callbacks, among them the advance         *)
(* callbacks an earlier session left pending, the round index never        *)
(* exceeds the round limit, and a round index increases at most once for   *)
(* each target drawn: by exactly one, and only while no increase has       *)
(* happened since the last draw.                                           *)
(***************************************************************************)
C20_OneIncrementPerTarget ==
    /\ [](currentRound <= totalRounds /\ intervalRound <= intervalTotalRounds)
    /\ [][/\ currentRound' > currentRound =>
               /\ ~roundResolved
               /\ roundResolved'
               /\ currentRound' = currentRound + 1
               /\ currentNote' = currentNote
          /\ intervalRound' > intervalRound =>
               /\ ~roundResolved
               /\ roundResolved'
               /\ intervalRound' = intervalRound + 1
               /\ intervalRoot' = intervalRoot
               /\ currentIntervalObj' = currentIntervalObj]_vars

\* the fifth answer of a note-match session given while an advance callback
\* scheduled before it is still pending
C20_Witness ==
    /\ section = "note-game-section"
    /\ currentRound = totalRounds
    /\ score = totalRounds
    /\ roundResolved
    /\ Len(timers) = 2

\* in every round the player answers in the end: a round that has a target
\* and no answer counted yet leads to the round being resolved
PlayerAnswersEveryRound ==
    (section # "main-menu" /\ ~roundResolved) ~> roundResolved

\* the round index and the round limit of the game that is shown
sessionRound ==
    CASE section = "note-game-section" -> currentRound
      [] section = "chords-game-section" -> chordRound
      [] section = "interval-game-section" -> intervalRound
      [] section = "time-game-section" -> timeRound
      [] OTHER -> 0

sessionLimit ==
    CASE section = "note-game-section" -> totalRounds
      [] section = "chords-game-section" -> chordTotalRounds
      [] section = "interval-game-section" -> intervalTotalRounds
      [] section = "time-game-section" -> timeTotalRounds
      [] OTHER -> 0

(***************************************************************************)
(* C21.  In a session of note-match, chord-builder, interval-trainer or    *)
(* time-signature in which the player answers every round in the end and   *)
(* every scheduled callback runs in the end, the round index of the game   *)
(* reaches the round limit, and no round-start that runs while the round   *)
(* index is at or above the limit draws a further target.                  *)
(***************************************************************************)
C21_SessionCompletes ==
    /\ PlayerAnswersEveryRound =>
         ((section # "main-menu" /\ sessionRound < sessionLimit)
             ~> (sessionRound = sessionLimit /\ roundResolved))
    /\ [][/\ currentRound >= totalRounds => currentNote' = currentNote
          /\ chordRound >= chordTotalRounds => currentChord' = currentChord
          /\ intervalRound >= intervalTotalRounds =>
                (intervalRoot' = intervalRoot
                 /\ currentIntervalObj' = currentIntervalObj)
          /\ timeRound >= timeTotalRounds =>
                currentTimeSig' = currentTimeSig]_vars

\* the time-signature session is complete: the fifth measure was built and
\* the round-start that followed has run and drawn nothing
C21_Witness ==
    /\ section = "time-game-section"
    /\ timeRound = timeTotalRounds /\ timeScore = timeTotalRounds
    /\ roundResolved
    /\ timers = <<>>
    /\ currentMeasureTotal = 100 * currentTimeSig.beats

(***************************************************************************)
(* C22.  In note-match, scale-practice, interval-trainer and               *)
(* time-signature the score equals the round index in every reachable      *)
(* state, the state in which the final score is reported included.         *)
(***************************************************************************)
C22_ScoreEqualsRoundIndex ==
    /\ score = currentRound
    /\ scaleScore = scaleRound
    /\ intervalScore = intervalRound
    /\ timeScore = timeRound

\* time-signature after three measures were built, with an overflow of the
\* fourth round waiting for its reset
C22_Witness ==
    /\ section = "time-game-section"
    /\ timeRound = 3 /\ timeScore = 3
    /\ ~roundResolved
    /\ currentMeasureTotal > 100 * currentTimeSig.beats
    /\ \E i \in DOMAIN timers : timers[i].fn = "measureReset"

(***************************************************************************)
(* C23.  Interval-trainer never offers the interval 'octave' (7 steps) and *)
(* never offers B (index 6) as the root: in every reachable state with a   *)
(* drawn target, currentIntervalObj.steps <= 5 and the index of the root   *)
(* is <= 5.                                                                *)
(***************************************************************************)
C23_NoOctaveNoRootB ==
    (intervalRoot # NULL /\ currentIntervalObj # NULL) =>
        /\ currentIntervalObj.name # "octave"
        /\ currentIntervalObj.steps <= 5
        /\ intervalRoot.name # "B"
        /\ findIndex(intervalRoot.name) <= 5

\* the widest interval and the highest root that are offered: a major sixth
\* (5 steps) on D after one answer, or a major second on A
C23_Witness ==
    /\ section = "interval-game-section"
    /\ intervalRound = 1
    /\ ~roundResolved
    /\ \/ (currentIntervalObj.steps = 5 /\ findIndex(intervalRoot.name) = 1)
       \/ (currentIntervalObj.steps = 1 /\ findIndex(intervalRoot.name) = 5)

(***************************************************************************)
(* C24.  A press of the reset button of time-signature while a time        *)
(* signature is current sets the running total to 0 and leaves timeRound,  *)
(* timeScore and currentTimeSig unchanged: the press is possible and has   *)
(* no other outcome.  The handler of the button, run before any time       *)
(* signature has been drawn, changes nothing.                              *)
(***************************************************************************)
C24_ResetClearsOnlyTheMeasure ==
    /\ (section = "time-game-section" /\ currentTimeSig # NULL) =>
          /\ ENABLED TimeReset
          /\ ~ENABLED (/\ TimeReset
                       /\ ~(/\ currentMeasureTotal' = 0
                            /\ timeRound' = timeRound
                            /\ timeScore' = timeScore
                            /\ currentTimeSig' = currentTimeSig))
    /\ currentTimeSig = NULL =>
          /\ ENABLED timeReset
          /\ ~ENABLED (timeReset /\ vars' # vars)

\* second round: two submissions overflowed the measure and the reset
\* button was pressed before either of their callbacks ran
C24_Witness ==
    /\ section = "time-game-section"
    /\ timeRound = 1 /\ timeScore = 1
    /\ ~roundResolved
    /\ currentMeasureTotal = 0
    /\ timers = <<[fn |-> "measureReset", key |-> 0],
                  [fn |-> "measureReset", key |-> 0]>>

(***************************************************************************)
(* C25.  The rejection-sampling loop of the round-start of                 *)
(* interval-trainer terminates: whenever the loop runs, a draw of a root   *)
(* and an interval with rootIndex + steps < 7 is possible, and under fair  *)
(* random draws the running loop leads to the loop being left with a       *)
(* target set and its round awaiting an answer.                            *)
(***************************************************************************)
C25_DrawLoopTerminates ==
    /\ [](intervalDraw.pc = "loop" => ENABLED LoopExit)
    /\ (intervalDraw.pc = "loop")
          ~> (/\ intervalDraw.pc = "idle"
              /\ ~roundResolved
              /\ intervalRoot # NULL
              /\ findIndex(intervalRoot.name) + currentIntervalObj.steps < 7)

\* the loop of the third round has drawn the octave on B and goes on
C25_Witness ==
    /\ section = "interval-game-section"
    /\ intervalRound = 2
    /\ intervalDraw.pc = "loop"
    /\ intervalDraw.rootIndex = 6
    /\ intervalDraw.intervalObj.name = "octave"

====
